---- MODULE Spec2Model ----
(***************************************************************************)
(* Model of polclisat8.py: the AQI computation (sub_index, aqi_color, the  *)
(* composite AQI of get_air_quality), the coordinate validator             *)
(* (is_within_india) and the Gradio callbacks (search_and_set_location,    *)
(* manual_update) with the data fetches they issue.                        *)
(*                                                                         *)
(* Numbers.  Python evaluates sub_index in binary floating point.  The     *)
(* model evaluates the same expression, in the same order, over exact      *)
(* rationals <<numerator, denominator>> (denominator > 0, lowest terms).   *)
(***************************************************************************)
EXTENDS Integers, Sequences, FiniteSets

VARIABLES
    call,      \* last call of a helper function: its arguments and result
    c,         \* "current" readings of the air-quality service (raw units)
    aq,        \* what get_air_quality computed from c
    la, lo,    \* the Latitude / Longitude Number fields
    zm, tl,    \* the Zoom slider and the Tileset dropdown
    msg,       \* the status HTML
    mp,        \* the map HTML
    dt,        \* the data HTML (a sequence of panels)
    log,       \* the collaborator calls the last callback issued
    outcome,   \* how the last callback ended
    pending    \* a change event of la / lo, set by a callback, is queued

vars == <<call, c, aq, la, lo, zm, tl, msg, mp, dt, log, outcome, pending>>

----------------------------------------------------------------------------
(* Exact rational arithmetic                                               *)

RECURSIVE GCD(_, _)
GCD(a, b) == IF b = 0 THEN a ELSE GCD(b, a % b)

Abs(x) == IF x < 0 THEN -x ELSE x

\* n/d in lowest terms with a positive denominator
Norm(n, d) ==
    LET s == IF d < 0 THEN -1 ELSE 1
        g == GCD(Abs(n), Abs(d))
    IN  <<(s * n) \div g, (s * d) \div g>>

R(k) == <<k, 1>>

RAdd(x, y) == Norm(x[1] * y[2] + y[1] * x[2], x[2] * y[2])
RSub(x, y) == Norm(x[1] * y[2] - y[1] * x[2], x[2] * y[2])
RMul(x, y) == Norm(x[1] * y[1], x[2] * y[2])
RDiv(x, y) == Norm(x[1] * y[2], x[2] * y[1])
RLeq(x, y) == x[1] * y[2] <= y[1] * x[2]
RLt(x, y)  == x[1] * y[2] <  y[1] * x[2]
RMax(x, y) == IF RLt(x, y) THEN y ELSE x

----------------------------------------------------------------------------
(* Tables                                                                  *)

Pollutants ==
    <<"pm2_5", "pm10", "carbon_monoxide", "nitrogen_dioxide",
      "sulphur_dioxide", "ozone">>

PollutantSet == {Pollutants[i] : i \in 1..Len(Pollutants)}

\* (C_low, C_high, I_low, I_high) per band
AQI_BREAKPOINTS ==
    [p \in PollutantSet |->
       CASE p = "pm2_5" ->
              << <<0,30,0,50>>, <<30,60,51,100>>, <<60,90,101,200>>,
                 <<90,120,201,300>>, <<120,250,301,400>>, <<250,350,401,500>> >>
         [] p = "pm10" ->
              << <<0,50,0,50>>, <<50,100,51,100>>, <<100,250,101,200>>,
                 <<250,350,201,300>>, <<350,430,301,400>>, <<430,600,401,500>> >>
         [] p = "carbon_monoxide" ->
              << <<0,1,0,50>>, <<1,2,51,100>>, <<2,10,101,200>>,
                 <<10,17,201,300>>, <<17,34,301,400>>, <<34,50,401,500>> >>
         [] p = "nitrogen_dioxide" ->
              << <<0,40,0,50>>, <<40,80,51,100>>, <<80,180,101,200>>,
                 <<180,280,201,300>>, <<280,400,301,400>>, <<400,1000,401,500>> >>
         [] p = "sulphur_dioxide" ->
              << <<0,40,0,50>>, <<40,80,51,100>>, <<80,380,101,200>>,
                 <<380,800,201,300>>, <<800,1600,301,400>>, <<1600,2000,401,500>> >>
         [] p = "ozone" ->
              << <<0,50,0,50>>, <<50,100,51,100>>, <<100,168,101,200>>,
                 <<168,208,201,300>>, <<208,748,301,400>>, <<748,1000,401,500>> >>]

\* (low, high, label, color)
AQI_BANDS ==
    << <<0,   50,  "Good",         "#009966">>,
       <<51,  100, "Satisfactory", "#ffde33">>,
       <<101, 200, "Moderate",     "#ff9933">>,
       <<201, 300, "Poor",         "#cc0033">>,
       <<301, 400, "Very Poor",    "#660099">>,
       <<401, 500, "Severe",       "#7e0023">> >>

----------------------------------------------------------------------------
(* Helper functions                                                        *)

SetMin(S) == CHOOSE x \in S : \A y \in S : x <= y
SetMax(S) == CHOOSE x \in S : \A y \in S : y <= x

\* the bands whose closed interval [C_low, C_high] holds C
Matching(C, breakpoints) ==
    {i \in 1..Len(breakpoints) :
        RLeq(R(breakpoints[i][1]), C) /\ RLeq(C, R(breakpoints[i][2]))}

\* a loop that keeps the last band that matches
LastMatch(C, breakpoints) == SetMax(Matching(C, breakpoints))

\* the for loop returns at the first band that matches
FirstMatch(C, breakpoints) == SetMin(Matching(C, breakpoints))

\* I_low and I_high exchanged in the slope
InterpolateDescending(C, b) ==
    RAdd(RMul(RDiv(R(b[3] - b[4]), R(b[2] - b[1])), RSub(C, R(b[1]))), R(b[3]))

\* C_low added in place of I_low
InterpolateSwapped(C, b) ==
    RAdd(RMul(RDiv(R(b[4] - b[3]), R(b[2] - b[1])), RSub(C, R(b[1]))), R(b[1]))

\* ((I_high - I_low)/(C_high - C_low)) * (C - C_low) + I_low
Interpolate(C, b) ==
    RAdd(RMul(RDiv(R(b[4] - b[3]), R(b[2] - b[1])), RSub(C, R(b[1]))), R(b[3]))

\* extrapolates the first / last band outside the table
sub_index_unclamped(C, breakpoints) ==
    IF Matching(C, breakpoints) # {}
    THEN Interpolate(C, breakpoints[FirstMatch(C, breakpoints)])
    ELSE IF RLt(C, R(breakpoints[1][1]))
         THEN Interpolate(C, breakpoints[1])
         ELSE Interpolate(C, breakpoints[Len(breakpoints)])

\* without the test C < breakpoints[0][0]
sub_index_no_floor(C, breakpoints) ==
    IF Matching(C, breakpoints) # {}
    THEN Interpolate(C, breakpoints[FirstMatch(C, breakpoints)])
    ELSE R(breakpoints[Len(breakpoints)][4])

sub_index(C, breakpoints) ==
    IF Matching(C, breakpoints) # {}
    THEN Interpolate(C, breakpoints[FirstMatch(C, breakpoints)])
    ELSE IF RLt(C, R(breakpoints[1][1]))
         THEN R(breakpoints[1][3])
         ELSE R(breakpoints[Len(breakpoints)][4])

BandsHolding(aqi) ==
    {i \in 1..Len(AQI_BANDS) :
        RLeq(R(AQI_BANDS[i][1]), aqi) /\ RLeq(aqi, R(AQI_BANDS[i][2]))}

\* returns <<color, label>>
aqi_color(aqi) ==
    IF BandsHolding(aqi) # {}
    THEN LET b == AQI_BANDS[SetMin(BandsHolding(aqi))] IN <<b[4], b[3]>>
    ELSE <<"#000000", "Unknown">>

\* the northern and eastern edges left out
is_within_india_half_open(lat, lon) ==
    /\ RLeq(R(6), lat) /\ RLt(lat, R(36))
    /\ RLeq(R(68), lon) /\ RLt(lon, R(98))

is_within_india(lat, lon) ==
    /\ RLeq(R(6), lat) /\ RLeq(lat, R(36))
    /\ RLeq(R(68), lon) /\ RLeq(lon, R(98))

----------------------------------------------------------------------------
(* get_air_quality: the computation on the service's "current" object      *)

\* dict.get(key, default)
Get(cur, key, default) == IF key \in DOMAIN cur THEN cur[key] ELSE default

\* Python's max(a, b, ...)
Max6(a, b, d, e, f, g) == RMax(RMax(RMax(RMax(RMax(a, b), d), e), f), g)

\* the reading left in ug/m3
RawCO(cur) == Get(cur, "carbon_monoxide", R(0))

\* co = c.get("carbon_monoxide",0)/1000.0
ConvertCO(cur) == RDiv(Get(cur, "carbon_monoxide", R(0)), R(1000))

AirQuality(cur) ==
    LET pm25 == Get(cur, "pm2_5", R(0))
        pm10 == Get(cur, "pm10", R(0))
        co   == ConvertCO(cur)
        no2  == Get(cur, "nitrogen_dioxide", R(0))
        so2  == Get(cur, "sulphur_dioxide", R(0))
        o3   == Get(cur, "ozone", R(0))
        idx_pm25 == sub_index(pm25, AQI_BREAKPOINTS["pm2_5"])
        idx_pm10 == sub_index(pm10, AQI_BREAKPOINTS["pm10"])
        idx_co   == sub_index(co,   AQI_BREAKPOINTS["carbon_monoxide"])
        idx_no2  == sub_index(no2,  AQI_BREAKPOINTS["nitrogen_dioxide"])
        idx_so2  == sub_index(so2,  AQI_BREAKPOINTS["sulphur_dioxide"])
        idx_o3   == sub_index(o3,   AQI_BREAKPOINTS["ozone"])
        aqi      == Max6(idx_pm25, idx_pm10, idx_co, idx_no2, idx_so2, idx_o3)
        cl       == aqi_color(aqi)
    IN  [idx   |-> [p \in PollutantSet |->
                      CASE p = "pm2_5"            -> idx_pm25
                        [] p = "pm10"             -> idx_pm10
                        [] p = "carbon_monoxide"  -> idx_co
                        [] p = "nitrogen_dioxide" -> idx_no2
                        [] p = "sulphur_dioxide"  -> idx_so2
                        [] p = "ozone"            -> idx_o3],
         aqi   |-> aqi,
         color |-> cl[1],
         label |-> cl[2]]

----------------------------------------------------------------------------
(* Collaborators and callbacks.  A function that lets an exception escape  *)
(* has the value Raise; its caller passes it on.  The outcome of every     *)
(* outbound call (it succeeds or fails) is an input of the callback.       *)

None == <<>>

Panel(kind, body) == [kind |-> kind, body |-> body]

Raise == Panel("raise", <<>>)

Logged(kind, lat, lon, ok) == [kind |-> kind, at |-> <<lat, lon>>, ok |-> ok]

\* requests.get(...); resp.raise_for_status() are outside any try.  The
\* numbers of the panel, AirQuality(resp.current), are kept in aq.
get_air_quality(lat, lon, resp) ==
    IF resp.ok THEN Panel("aqi", <<lat, lon>>) ELSE Raise

\* no try around satellite_client.weather_api
get_satellite_radiation(lat, lon, ok) ==
    IF ok THEN Panel("satellite", <<lat, lon>>) ELSE Raise

\* without the try: the exception escapes
get_climate_data_uncaught(lat, lon, ok) ==
    IF ok THEN Panel("climate", <<lat, lon>>) ELSE Raise

\* try: ... except Exception as e: return "<div style='color:red;...
get_climate_data(lat, lon, ok) ==
    IF ok THEN Panel("climate", <<lat, lon>>) ELSE Panel("climate_error", <<>>)

TILE_OPTIONS ==
    << <<"OpenStreetMap", "OpenStreetMap", None>>,
       <<"CartoDB positron", "CartoDB positron", None>> >>

TileLabels == {TILE_OPTIONS[i][1] : i \in 1..Len(TILE_OPTIONS)}

\* CUSTOM_TILES is empty: a label not in TILE_OPTIONS falls back
Tiles(tiles_label) ==
    IF \E i \in 1..Len(TILE_OPTIONS) : TILE_OPTIONS[i][1] = tiles_label
    THEN LET i == SetMin({j \in 1..Len(TILE_OPTIONS) :
                            TILE_OPTIONS[j][1] = tiles_label})
         IN  TILE_OPTIONS[i][2]
    ELSE "OpenStreetMap"

Centroid == <<Norm(21146633, 1000000), Norm(79088860, 1000000)>>

\* the marker added to the map: none, the red fallback, or the location
Marker(lat, lon) ==
    IF lat # None /\ lon # None
    THEN IF ~is_within_india(lat, lon)
         THEN <<"Out of India bounds", Centroid>>
         ELSE <<"Location", <<lat, lon>>>>
    ELSE <<"none", None>>

create_india_map(lat, lon, zoom_start, tiles_label, ok) ==
    IF ok
    THEN Panel("map", <<Tiles(tiles_label), zoom_start, Marker(lat, lon)>>)
    ELSE Panel("map_error", <<>>)

\* len(name.strip()), name a sequence of characters
RECURSIVE lstrip(_)
lstrip(name) ==
    IF name # <<>> /\ Head(name) = " " THEN lstrip(Tail(name)) ELSE name

RECURSIVE rstrip(_)
rstrip(name) ==
    IF name # <<>> /\ name[Len(name)] = " "
    THEN rstrip(SubSeq(name, 1, Len(name) - 1))
    ELSE name

strip(name) == rstrip(lstrip(name))

\* the first result tagged IN, or None; raises when the request fails
search_location_open_meteo(location_name, geo) ==
    IF ~geo.ok
    THEN Raise
    ELSE LET hits == {i \in 1..Len(geo.results) :
                         geo.results[i].country_code = "IN"}
         IN  IF hits = {}
             THEN None
             ELSE LET res == geo.results[SetMin(hits)]
                  IN  [lat |-> res.latitude, lon |-> res.longitude]

Returns(out, lg) == [raised |-> FALSE, out |-> out, log |-> lg]
Raises(lg)       == [raised |-> TRUE,  out |-> <<>>, log |-> lg]

search_and_set_location(name, zoom, tiles, env) ==
    IF name = <<>> \/ Len(strip(name)) < 3
    THEN LET m == create_india_map(None, None, zoom, tiles, env.map)
             lg == <<Logged("map", None, None, env.map)>>
         IN  Returns(<<None, None, "Enter >=3 chars", m, <<>>>>, lg)
    ELSE
    LET r == search_location_open_meteo(strip(name), env.geo)
        g == <<Logged("geocode", None, None, env.geo.ok)>>
    IN  IF r = Raise THEN Raises(g)
        ELSE IF r = None
        THEN LET m == create_india_map(None, None, zoom, tiles, env.map)
             IN  Returns(<<None, None, "Not found/India", m, <<>>>>,
                         Append(g, Logged("map", None, None, env.map)))
        ELSE
        LET lat == r.lat
            lon == r.lon
            aqi_html == get_air_quality(lat, lon, env.aq)
            sat_html == get_satellite_radiation(lat, lon, env.sat)
            l1 == Append(g, Logged("air_quality", lat, lon, env.aq.ok))
            l2 == Append(l1, Logged("satellite", lat, lon, env.sat))
            l3 == Append(l2, Logged("map", lat, lon, env.map))
        IN  IF aqi_html = Raise THEN Raises(l1)
            ELSE IF sat_html = Raise THEN Raises(l2)
            ELSE Returns(<<lat, lon, "Found",
                           create_india_map(lat, lon, zoom, tiles, env.map),
                           <<aqi_html, sat_html>>>>, l3)

manual_update(lat, lon, zoom, tiles, env) ==
    IF lat # None /\ lon # None /\ is_within_india(lat, lon)
    THEN
        LET aqi_html     == get_air_quality(lat, lon, env.aq)
            sat_html     == get_satellite_radiation(lat, lon, env.sat)
            climate_html == get_climate_data(lat, lon, env.climate)
            m  == create_india_map(lat, lon, zoom, tiles, env.map)
            l1 == <<Logged("air_quality", lat, lon, env.aq.ok)>>
            l2 == Append(l1, Logged("satellite", lat, lon, env.sat))
            l3 == Append(l2, Logged("climate", lat, lon, env.climate))
            l4 == Append(l3, Logged("map", lat, lon, env.map))
        IN  IF aqi_html = Raise THEN Raises(l1)
            ELSE IF sat_html = Raise THEN Raises(l2)
            ELSE IF climate_html = Raise THEN Raises(l3)
            ELSE IF m = Raise THEN Raises(l4)
            ELSE Returns(<<lat, lon, "Marker at", m,
                           <<aqi_html, sat_html, climate_html>>>>, l4)
    ELSE
        LET m == create_india_map(lat, lon, zoom, tiles, env.map)
        IN  IF m = Raise
            THEN Raises(<<Logged("map", lat, lon, env.map)>>)
            ELSE Returns(<<lat, lon, "Enter valid India coords or search",
                           m, <<>>>>,
                         <<Logged("map", lat, lon, env.map)>>)

----------------------------------------------------------------------------
(* Bounds of the inputs                                                    *)

\* points per band: C_low + j*(C_high - C_low)/Steps, j = 0..Steps
Steps == 4
\* whole units sampled below the first band and above the last one
Outside == 2
\* aqi_color is applied to the multiples of 1/AqiDen from -1 to 501
AqiDen == 2
\* get_air_quality: midpoints of the bands 2..1+SampleBands are sampled
SampleBands == 1

NoCall == [op |-> "none", table |-> "", args |-> <<>>, result |-> <<>>]

BandPoints(b) ==
    {RAdd(R(b[1]), Norm(j * (b[2] - b[1]), Steps)) : j \in 0..Steps}
        \cup {Norm(b[1] + b[2], 2)}

\* the concentrations sub_index is applied to, per table
Conc(p) ==
    LET t == AQI_BREAKPOINTS[p]
    IN  UNION {BandPoints(t[i]) : i \in 1..Len(t)}
          \cup {R(t[1][1] - j) : j \in 1..Outside}
          \cup {R(t[Len(t)][2] + j) : j \in 1..Outside}

AqiValues ==
    {Norm(n, AqiDen) :
        n \in (-1 * AqiDen)..((AQI_BANDS[Len(AQI_BANDS)][2] + 1) * AqiDen)}

Lats == {Norm(59, 10), R(6), Norm(61, 10), R(21), Norm(359, 10), R(36),
         Norm(361, 10), R(37)}
Lons == {Norm(679, 10), R(68), Norm(681, 10), R(79), Norm(979, 10), R(98),
         Norm(981, 10), R(99)}

\* the raw readings of the air-quality service, per pollutant (CO in ug/m3)
Samples(p) ==
    LET t == AQI_BREAKPOINTS[p]
        u == IF p = "carbon_monoxide" THEN 1000 ELSE 1
    IN  {R(-1 * u), R(t[1][2] * u), R((t[Len(t)][2] + 1) * u)}
          \cup {Norm((t[i][1] + t[i][2]) * u, 2) : i \in 2..(1 + SampleBands)}

\* a "current" object without any of the six keys
NoReadings == [p \in {} |-> R(0)]

\* what the callbacks' inputs are drawn from
UiLats == {None, R(21), R(37)}
UiLons == {None, R(79), R(99)}
Zooms  == {5, 12}
Names  == {<<>>, <<" ", "a", "b", " ">>, <<" ", "G", "o", "a">>}

\* the readings PM2.5=30, PM10=50, CO=1000 ug/m3, NO2=40, SO2=40, O3=50
BoundaryReadings ==
    [p \in PollutantSet |->
        CASE p = "pm2_5"            -> R(30)
          [] p = "pm10"             -> R(50)
          [] p = "carbon_monoxide"  -> R(1000)
          [] p = "nitrogen_dioxide" -> R(40)
          [] p = "sulphur_dioxide"  -> R(40)
          [] p = "ozone"            -> R(50)]

AqResponses ==
    {[ok |-> FALSE, current |-> NoReadings],
     [ok |-> TRUE,  current |-> NoReadings],
     [ok |-> TRUE,  current |-> BoundaryReadings]}

GeoResult(cc, lat, lon) ==
    [country_code |-> cc, latitude |-> lat, longitude |-> lon]

\* the request fails; no result; no result in India; results in India,
\* inside and outside the service region
GeoResponses ==
    {[ok |-> FALSE, results |-> <<>>],
     [ok |-> TRUE,  results |-> <<>>],
     [ok |-> TRUE,  results |-> <<GeoResult("LK", R(7), R(80))>>],
     [ok |-> TRUE,  results |-> <<GeoResult("IN", R(21), R(79))>>],
     [ok |-> TRUE,  results |-> <<GeoResult("LK", R(7), R(80)),
                                  GeoResult("IN", R(21), R(79))>>],
     [ok |-> TRUE,  results |-> <<GeoResult("IN", R(37), R(79)),
                                  GeoResult("IN", R(21), R(79))>>]}

NoGeo == [ok |-> TRUE, results |-> <<>>]

----------------------------------------------------------------------------
(* The helper functions applied to bounded inputs                          *)

UiIdle ==
    /\ la = None /\ lo = None /\ zm = 5 /\ tl = "OpenStreetMap"
    /\ msg = "" /\ mp = Panel("", <<>>) /\ dt = <<>> /\ log = <<>>
    /\ outcome = "none" /\ pending = FALSE

UiUnchanged ==
    UNCHANGED <<la, lo, zm, tl, msg, mp, dt, log, outcome, pending>>

InitFn ==
    /\ call = NoCall
    /\ c = NoReadings
    /\ aq = AirQuality(c)
    /\ UiIdle

CallSubIndex ==
    \E p \in PollutantSet : \E C \in Conc(p) :
        /\ call' = [op |-> "sub_index", table |-> p, args |-> <<C>>,
                    result |-> sub_index(C, AQI_BREAKPOINTS[p])]
        /\ UNCHANGED <<c, aq>>
        /\ UiUnchanged

CallAqiColor ==
    \E v \in AqiValues :
        /\ call' = [op |-> "aqi_color", table |-> "", args |-> <<v>>,
                    result |-> aqi_color(v)]
        /\ UNCHANGED <<c, aq>>
        /\ UiUnchanged

CallIsWithinIndia ==
    \E lat \in Lats : \E lon \in Lons :
        /\ call' = [op |-> "is_within_india", table |-> "",
                    args |-> <<lat, lon>>,
                    result |-> is_within_india(lat, lon)]
        /\ UNCHANGED <<c, aq>>
        /\ UiUnchanged

\* the raw reading the service reports for a looked-up concentration
Raw(p, v) == IF p = "carbon_monoxide" THEN RMul(v, R(1000)) ELSE v

\* get_air_quality on readings that differ from a base in one pollutant
CallAirQuality ==
    \E base \in {NoReadings, BoundaryReadings}, p \in PollutantSet :
        \E v \in Conc(p) :
            LET cur == [q \in DOMAIN base \cup {p} |->
                          IF q = p THEN Raw(p, v) ELSE base[q]]
            IN  /\ call' = [op |-> "get_air_quality", table |-> p,
                            args |-> <<cur>>, result |-> AirQuality(cur)]
                /\ UNCHANGED <<c, aq>>
                /\ UiUnchanged

NextFn == CallSubIndex \/ CallIsWithinIndia \/ CallAirQuality

SpecFn == InitFn /\ [][NextFn]_vars

NextColor == CallAqiColor

SpecColor == InitFn /\ [][NextColor]_vars

----------------------------------------------------------------------------
(* get_air_quality applied to the readings the service reports             *)

InitAqi ==
    /\ call = NoCall
    /\ c = NoReadings
    /\ aq = AirQuality(c)
    /\ UiIdle

\* the service reports a new value of one pollutant; the panel is recomputed
AirQualityResponse ==
    \E p \in PollutantSet : \E v \in Samples(p) :
        /\ c' = [q \in DOMAIN c \cup {p} |-> IF q = p THEN v ELSE c[q]]
        /\ aq' = AirQuality(c')
        /\ call' = call
        /\ UiUnchanged

NextAqi == AirQualityResponse

SpecAqi == InitAqi /\ [][NextAqi]_vars

----------------------------------------------------------------------------
(* The page: build_ui wires the callbacks to the events                    *)

Init ==
    /\ call = NoCall
    /\ c = NoReadings
    /\ aq = AirQuality(c)
    /\ UiIdle

ManualEnvs ==
    [aq : AqResponses, sat : BOOLEAN, climate : BOOLEAN, map : BOOLEAN,
     geo : {NoGeo}]

SearchEnvs ==
    [aq : AqResponses, sat : BOOLEAN, climate : {TRUE}, map : BOOLEAN,
     geo : GeoResponses]

\* an outcome is drawn only for the calls a callback can come to issue
NoFetch(env) == env.aq.ok /\ env.sat /\ env.climate /\ env.geo = NoGeo

ManualEnvsFor(lat, lon) ==
    IF lat = None \/ lon = None
    THEN {env \in ManualEnvs : NoFetch(env)}
    ELSE ManualEnvs

SearchEnvsFor(name) ==
    IF Len(strip(name)) < 3
    THEN {env \in SearchEnvs : NoFetch(env)}
    ELSE SearchEnvs

\* the air-quality service answered: its readings and the panel's numbers
Answered(r, env) ==
    IF \E i \in 1..Len(r.log) : r.log[i].kind = "air_quality" /\ r.log[i].ok
    THEN c' = env.aq.current /\ aq' = AirQuality(env.aq.current)
    ELSE UNCHANGED <<c, aq>>

\* outputs=[la, lo, msg, mp, dt]; a callback that raised leaves them alone
Deliver(r, lat, lon) ==
    /\ log' = r.log
    /\ IF r.raised
       THEN /\ outcome' = "raised"
            /\ la' = lat /\ lo' = lon
            /\ UNCHANGED <<msg, mp, dt>>
       ELSE /\ outcome' = "returned"
            /\ la' = r.out[1] /\ lo' = r.out[2]
            /\ msg' = r.out[3] /\ mp' = r.out[4] /\ dt' = r.out[5]

\* demo.load: manual_update(None, None, z, t) on the components' defaults
Load ==
    \E env \in ManualEnvsFor(None, None) :
        LET r == manual_update(None, None, 5, "OpenStreetMap", env)
        IN  /\ zm' = 5 /\ tl' = "OpenStreetMap"
            /\ Deliver(r, None, None)
            /\ Answered(r, env)
            /\ pending' = FALSE
            /\ call' = call

\* la.change, lo.change, zm.change, tl.change: the user edits one input
Edits ==
    {<<lat, lo, zm, tl>> : lat \in UiLats \ {la}}
        \cup {<<la, lon, zm, tl>> : lon \in UiLons \ {lo}}
        \cup {<<la, lo, zoom, tl>> : zoom \in Zooms \ {zm}}
        \cup {<<la, lo, zm, tiles>> : tiles \in TileLabels \ {tl}}

Change ==
    \E e \in Edits : \E env \in ManualEnvsFor(e[1], e[2]) :
        LET r == manual_update(e[1], e[2], e[3], e[4], env)
        IN  /\ zm' = e[3] /\ tl' = e[4]
            /\ Deliver(r, e[1], e[2])
            /\ Answered(r, env)
            /\ pending' = pending
            /\ call' = call

\* la.change / lo.change after a callback set the fields
FieldsSet ==
    /\ pending
    /\ \E env \in ManualEnvsFor(la, lo) :
        LET r == manual_update(la, lo, zm, tl, env)
        IN  /\ Deliver(r, la, lo)
            /\ Answered(r, env)
            /\ pending' = FALSE
            /\ UNCHANGED <<zm, tl, call>>

\* sb.submit
Search ==
    \E name \in Names : \E env \in SearchEnvsFor(name) :
        LET r == search_and_set_location(name, zm, tl, env)
        IN  /\ Deliver(r, la, lo)
            /\ Answered(r, env)
            /\ pending' = (pending \/ la' # la \/ lo' # lo)
            /\ UNCHANGED <<zm, tl, call>>

Next == Load \/ Change \/ FieldsSet \/ Search

Spec == Init /\ [][Next]_vars

----------------------------------------------------------------------------
(* Properties of sub_index, aqi_color and is_within_india (SpecFn)         *)

SubCall   == call.op = "sub_index"
CallTable == AQI_BREAKPOINTS[call.table]
CallC     == call.args[1]
Sentinel  == <<"#000000", "Unknown">>

\* C1 as stated: for every table and band, sub_index(C_low) = I_low,
\* sub_index(C_high) = I_high and sub_index((C_low + C_high)/2) =
\* (I_low + I_high)/2.
C1_EveryBoundExact ==
    SubCall =>
        \A i \in 1..Len(CallTable) :
            LET b == CallTable[i]
            IN  /\ CallC = R(b[1]) => call.result = R(b[3])
                /\ CallC = R(b[2]) => call.result = R(b[4])
                /\ CallC = Norm(b[1] + b[2], 2)
                       => call.result = Norm(b[3] + b[4], 2)

\* C1 amended: sub_index(C_high) = I_high and the midpoint gives
\* (I_low + I_high)/2 for every band; sub_index(C_low) = I_low for the first
\* band only: the C_low of a later band is the C_high of the band before it,
\* and gives that band's I_high.
C1_BoundsAndMidpoint ==
    SubCall =>
        \A i \in 1..Len(CallTable) :
            LET b == CallTable[i]
            IN  /\ (i = 1 /\ CallC = R(b[1])) => call.result = R(b[3])
                /\ (i > 1 /\ CallC = R(b[1]))
                       => /\ call.result = R(CallTable[i - 1][4])
                          /\ call.result = R(b[3] - 1)
                /\ CallC = R(b[2]) => call.result = R(b[4])
                /\ CallC = Norm(b[1] + b[2], 2)
                       => call.result = Norm(b[3] + b[4], 2)

\* sub_index(168, ozone) = 200: the lower bound of the band (168,208,201,300)
C1_Witness ==
    /\ SubCall /\ call.table = "ozone"
    /\ CallC = R(CallTable[4][1]) /\ call.result = R(200)

\* C2: a concentration below the first band's lower bound gives the first
\* band's I_low (0); one that matches no band otherwise, so any one above the
\* last band's upper bound, gives the last band's I_high (500); the result
\* is always a number.
C2_Saturates ==
    SubCall =>
        LET first == CallTable[1]
            last  == CallTable[Len(CallTable)]
            inBand(i) == /\ CallTable[i][1] * CallC[2] <= CallC[1]
                         /\ CallC[1] <= CallTable[i][2] * CallC[2]
        IN  /\ call.result \in Int \X (Nat \ {0})
            /\ CallC[1] < first[1] * CallC[2]
                   => call.result = R(first[3]) /\ call.result = R(0)
            /\ CallC[1] > last[2] * CallC[2]
                   => call.result = R(last[4]) /\ call.result = R(500)
            /\ ((\A i \in 1..Len(CallTable) : ~inBand(i))
                  /\ ~(CallC[1] < first[1] * CallC[2]))
                   => call.result = R(last[4])

\* sub_index(-1, nitrogen_dioxide) = 0
C2_Witness ==
    /\ SubCall /\ call.table = "nitrogen_dioxide"
    /\ CallC = R(-1) /\ call.result = R(0)

\* C3: a concentration on the boundary shared by band n and band n+1 is
\* interpolated in band n: the result is band n's I_high, not band n+1's
\* I_low.
C3_FirstBandWins ==
    SubCall =>
        \A n \in 1..(Len(CallTable) - 1) :
            (CallTable[n][2] = CallTable[n + 1][1] /\ CallC = R(CallTable[n][2]))
                => /\ call.result = R(CallTable[n][4])
                   /\ call.result # R(CallTable[n + 1][3])

\* sub_index(30, pm2_5) = 50
C3_Witness ==
    /\ SubCall /\ call.table = "pm2_5"
    /\ CallC = R(30) /\ call.result = R(50)

\* C5: aqi_color returns the sentinel only for a value below 0 or above 500;
\* 0 is Good, 75 is Satisfactory, 500 is Severe.
C5_BandsSpan ==
    call.op = "aqi_color" =>
        /\ call.result = Sentinel
               => (CallC[1] < 0 \/ CallC[1] > 500 * CallC[2])
        /\ CallC = R(0)   => call.result = <<"#009966", "Good">>
        /\ CallC = R(75)  => call.result = <<"#ffde33", "Satisfactory">>
        /\ CallC = R(500) => call.result = <<"#7e0023", "Severe">>

\* C6: is_within_india(lat, lon) is true exactly when 6 <= lat <= 36 and
\* 68 <= lon <= 98; (21,79), (6,68), (36,98) are inside, (5.9,79) and
\* (37,79) are outside.
C6_ServiceRegion ==
    call.op = "is_within_india" =>
        LET lat == call.args[1]
            lon == call.args[2]
        IN  /\ call.result
                  <=> /\ 6 * lat[2] <= lat[1] /\ lat[1] <= 36 * lat[2]
                      /\ 68 * lon[2] <= lon[1] /\ lon[1] <= 98 * lon[2]
            /\ call.args = <<R(21), R(79)>> => call.result
            /\ call.args = <<R(6), R(68)>> => call.result
            /\ call.args = <<R(36), R(98)>> => call.result
            /\ call.args = <<Norm(59, 10), R(79)>> => ~call.result
            /\ call.args = <<R(37), R(79)>> => ~call.result

\* is_within_india(36, 98) is true
C6_Witness ==
    /\ call.op = "is_within_india"
    /\ call.args = <<R(36), R(98)>> /\ call.result

----------------------------------------------------------------------------
(* Properties of the composite AQI (SpecAqi)                               *)

Reading(cur, p) == Get(cur, p, R(0))

\* the concentration looked up for pollutant p: CO in mg/m3
LookedUp(cur, p) ==
    IF p = "carbon_monoxide"
    THEN Norm(Reading(cur, p)[1], Reading(cur, p)[2] * 1000)
    ELSE Reading(cur, p)

\* C4: the composite AQI is the maximum of the six sub-indices, each looked
\* up in its own table, the raw CO reading divided by 1000 first; the
\* readings 30, 50, 1000, 40, 40, 50 give six sub-indices of 50 and the
\* composite 50.
C4_CompositeIsMax ==
    /\ \A p \in PollutantSet :
           /\ aq.idx[p] = sub_index(LookedUp(c, p), AQI_BREAKPOINTS[p])
           /\ aq.idx[p][1] * aq.aqi[2] <= aq.aqi[1] * aq.idx[p][2]
    /\ \E p \in PollutantSet : aq.aqi = aq.idx[p]
    /\ c = BoundaryReadings
           => /\ \A p \in PollutantSet : aq.idx[p] = R(50)
              /\ aq.aqi = R(50)

C4_Witness == c = BoundaryReadings /\ aq.aqi = R(50) /\ aq.label = "Good"

InGap(v) ==
    \E i \in 1..(Len(AQI_BANDS) - 1) :
        /\ AQI_BANDS[i][2] * v[2] < v[1]
        /\ v[1] < AQI_BANDS[i + 1][1] * v[2]

\* C9: whatever the six readings, every sub-index lies in [0, 500] and in
\* none of the gaps 50-51, 100-101, 200-201, 300-301, 400-401, the composite
\* lies in a band of AQI_BANDS and its label is never "Unknown".
C9_NeverUnknown ==
    /\ \A p \in PollutantSet :
           /\ 0 <= aq.idx[p][1] /\ aq.idx[p][1] <= 500 * aq.idx[p][2]
           /\ ~InGap(aq.idx[p])
    /\ \E i \in 1..Len(AQI_BANDS) :
           /\ AQI_BANDS[i][1] * aq.aqi[2] <= aq.aqi[1]
           /\ aq.aqi[1] <= AQI_BANDS[i][2] * aq.aqi[2]
           /\ aq.label = AQI_BANDS[i][3]
    /\ aq.label # "Unknown"

\* a negative reading, a reading above its table and the composite 500
C9_Witness ==
    /\ DOMAIN c = PollutantSet
    /\ c["pm2_5"] = R(-1) /\ c["ozone"] = R(1001) /\ c["pm10"] = R(75)
    /\ aq.idx["pm10"] = Norm(151, 2)
    /\ aq.aqi = R(500) /\ aq.label = "Severe"

\* C10: sub_index never decreases when the concentration rises, inside or
\* outside the table's range, and the composite AQI never decreases when no
\* reading goes down.
C10_Monotone ==
    [][/\ (/\ SubCall /\ call'.op = "sub_index" /\ call'.table = call.table
           /\ RLeq(CallC, call'.args[1]))
          => RLeq(call.result, call'.result)
       /\ (/\ call.op = "get_air_quality" /\ call'.op = "get_air_quality"
           /\ \A p \in PollutantSet :
                  RLeq(Reading(call.args[1], p), Reading(call'.args[1], p)))
          => /\ RLeq(call.result.aqi, call'.result.aqi)
             /\ \A p \in PollutantSet :
                    RLeq(call.result.idx[p], call'.result.idx[p])]_vars

\* get_air_quality after the PM2.5 reading rose from 30 to 37.5, across the
\* boundary of the first two bands: the composite is 63.25
C10_Witness ==
    /\ call.op = "get_air_quality"
    /\ DOMAIN call.args[1] = PollutantSet
    /\ call.args[1]["pm2_5"] = Norm(75, 2)
    /\ call.result.aqi = Norm(253, 4)

----------------------------------------------------------------------------
(* Properties of the callbacks (Spec)                                      *)

DataFetches == {"air_quality", "satellite", "climate"}

Outside36(at) ==
    ~(/\ 6 * at[1][2] <= at[1][1] /\ at[1][1] <= 36 * at[1][2]
      /\ 68 * at[2][2] <= at[2][1] /\ at[2][1] <= 98 * at[2][2])

\* C7: no air-quality, satellite or climate fetch is issued for a
\* coordinate outside the service region, typed or returned by the geocoder;
\* for such a coordinate the map shows only the out-of-bounds marker.
C7_FetchesGated ==
    /\ \A i \in 1..Len(log) :
           log[i].kind \in DataFetches => ~Outside36(log[i].at)
    /\ (/\ outcome = "returned" /\ mp.kind = "map"
        /\ la # None /\ lo # None /\ Outside36(<<la, lo>>))
           => mp.body[3] = <<"Out of India bounds", Centroid>>

Failed(kind) == \E i \in 1..Len(log) : log[i].kind = kind /\ ~log[i].ok

\* C8: when the climate fetch or the rendering of the map fails, the callback
\* still returns its five outputs: a red error panel stands for what failed,
\* and the air-quality and satellite panels that succeeded are in the data.
C8_FailureIsAPanel ==
    /\ Failed("climate")
           => /\ outcome = "returned"
              /\ msg = "Marker at"
              /\ la = log[1].at[1] /\ lo = log[1].at[2]
              /\ mp.kind \in {"map", "map_error"}
              /\ Len(dt) = 3
              /\ dt[1].kind = "aqi" /\ dt[2].kind = "satellite"
              /\ dt[3].kind = "climate_error"
    /\ Failed("map")
           => /\ outcome = "returned"
              /\ mp.kind = "map_error"
              /\ (\E i \in 1..Len(log) : log[i].kind = "air_quality")
                     => /\ Len(dt) >= 2
                        /\ dt[1].kind = "aqi" /\ dt[2].kind = "satellite"

\* manual_update returned although the climate fetch and the map failed
C8_Witness ==
    /\ Failed("climate") /\ Failed("map")
    /\ outcome = "returned" /\ msg = "Marker at"
    /\ dt[1].kind = "aqi" /\ dt[3].kind = "climate_error"
    /\ mp.kind = "map_error"

====
